---- MODULE Spec2Model ----
(***************************************************************************)
(* tau-Guardian harness: the tau-bounded repair loop (harness.run_wrapped  *)
(* and swe_runner.run_swe_wrapped), the CRI / SAD metrics, the decision    *)
(* policy, and the post-hoc reconciliation of mini-SWE-agent results with  *)
(* SWE-bench instance results (analyze_mini_swe_results).                  *)
(*                                                                         *)
(* Numbers: cri is a Python float in [0,1].  It is modelled exactly as an  *)
(* integer number of 1/Scale units, where Scale is a multiple of 50 and of *)
(* every test total the model draws, so pass rates, the 0.1 and 0.02       *)
(* penalties, the 0.9 threshold and the 0.05 plateau width are all exact.  *)
(***************************************************************************)
EXTENDS Integers, Sequences, FiniteSets, TLC

(* ------------------------------ bounds --------------------------------- *)

MaxTau == 3
MaxTests == 2
MaxLint == 1
MaxPreds == 1
MaxFiles == 1
MetricTests == 10
MetricLint == 5
MaxCount == 2
MaxTime == 11
MaxCalls == 4
MaxBalance == 2

(* ----------------------------- arithmetic ------------------------------ *)

Max(a, b) == IF a >= b THEN a ELSE b

Min(a, b) == IF a <= b THEN a ELSE b

Abs(a) == IF a >= 0 THEN a ELSE 0 - a

RECURSIVE Gcd(_, _)
Gcd(a, b) == IF b = 0 THEN a ELSE Gcd(b, a % b)

RECURSIVE LcmUpTo(_)
LcmUpTo(n) == IF n <= 1 THEN 1 ELSE (LcmUpTo(n - 1) * n) \div Gcd(LcmUpTo(n - 1), n)

Scale == 50 * LcmUpTo(Max(MaxTests, MetricTests))

(* ------------------------- security scanning --------------------------- *)

RealTags == {"SQLI_FSTRING", "HARDCODED_SECRETS"}

SyntaxErrorTag == "SYNTAX_ERROR_PREVENTS_SECURITY_SCAN"

ScanErrorTag == "SECURITY_SCAN_ERROR"

\* ast_security.run_ast_security_checks on one source text.  The text is
\* abstracted to what the visitor would find in it (tags), whether
\* ast.parse raises SyntaxError on it, and whether the scan raises another
\* exception (e.g. visit_Assign calls len() on a non-string constant).
\* Result: [raised, v]; v is the returned violation list when not raised.
run_ast_security_checks(code) ==
    IF code.syntax_error THEN [raised |-> FALSE, v |-> {SyntaxErrorTag}]
    ELSE IF code.raises THEN [raised |-> TRUE, v |-> {}]
    ELSE [raised |-> FALSE, v |-> code.tags]

\* harness.run_security_rules: regular-expression rules over the solution
\* text; no parse step, so a syntax error in the text is not noticed.
run_security_rules(code) == code.tags

(* --------------------------- metrics, decision ------------------------- *)

\* the result not clamped to [0, 1]
compute_metrics_unclamped(checks, tau_step) ==
    LET pass_rate == IF checks.total_tests > 0
                     THEN (Scale * (checks.total_tests - checks.tests_failed))
                              \div checks.total_tests
                     ELSE 0
        sec_penalty == (Scale \div 10) * Cardinality(checks.security_violations)
        lint_penalty == (Scale \div 50) * checks.linter_errors
    IN  [cri |-> pass_rate - sec_penalty - lint_penalty,
         sad_flag |-> Cardinality(checks.security_violations) > 0,
         tau |-> tau_step]

\* no tests counted as all tests passed
compute_metrics_vacuous_pass(checks, tau_step) ==
    LET pass_rate == IF checks.total_tests > 0
                     THEN (Scale * (checks.total_tests - checks.tests_failed))
                              \div checks.total_tests
                     ELSE Scale
        sec_penalty == (Scale \div 10) * Cardinality(checks.security_violations)
        lint_penalty == (Scale \div 50) * checks.linter_errors
    IN  [cri |-> Max(0, Min(Scale, pass_rate - sec_penalty - lint_penalty)),
         sad_flag |-> Cardinality(checks.security_violations) > 0,
         tau |-> tau_step]

\* the linter penalty left out
compute_metrics_no_lint(checks, tau_step) ==
    LET pass_rate == IF checks.total_tests > 0
                     THEN (Scale * (checks.total_tests - checks.tests_failed))
                              \div checks.total_tests
                     ELSE 0
        sec_penalty == (Scale \div 10) * Cardinality(checks.security_violations)
    IN  [cri |-> Max(0, Min(Scale, pass_rate - sec_penalty)),
         sad_flag |-> Cardinality(checks.security_violations) > 0,
         tau |-> tau_step]

compute_metrics(checks, tau_step) ==
    LET pass_rate == IF checks.total_tests > 0
                     THEN (Scale * (checks.total_tests - checks.tests_failed))
                              \div checks.total_tests
                     ELSE 0
        sec_penalty == (Scale \div 10) * Cardinality(checks.security_violations)
        lint_penalty == (Scale \div 50) * checks.linter_errors
    IN  [cri |-> Max(0, Min(Scale, pass_rate - sec_penalty - lint_penalty)),
         sad_flag |-> Cardinality(checks.security_violations) > 0,
         tau |-> tau_step]

\* default of the cri_ok_threshold parameter (0.9)
cri_ok_threshold == (9 * Scale) \div 10

\* the threshold test ahead of the sad test
decide_ok_first(metrics, checks, threshold) ==
    IF metrics.cri >= threshold /\ checks.tests_failed = 0 THEN "OK"
    ELSE IF metrics.sad_flag THEN "VETO"
    ELSE "ABSTAIN"

\* the tests_failed test left out
decide_cri_only(metrics, checks, threshold) ==
    IF metrics.sad_flag THEN "VETO"
    ELSE IF metrics.cri >= threshold THEN "OK"
    ELSE "ABSTAIN"

decide(metrics, checks, threshold) ==
    IF metrics.sad_flag THEN "VETO"
    ELSE IF metrics.cri >= threshold /\ checks.tests_failed = 0 THEN "OK"
    ELSE "ABSTAIN"

\* the plateau test one iteration late
Plateau_late(its) ==
    /\ Len(its) >= 3
    /\ 20 * Abs(its[Len(its)].metrics.cri - its[Len(its) - 1].metrics.cri) < Scale

\* abs(cri_t - cri_{t-1}) < 0.05
Plateau(its) ==
    /\ Len(its) >= 2
    /\ 20 * Abs(its[Len(its)].metrics.cri - its[Len(its) - 1].metrics.cri) < Scale

(* ------------------------------- state --------------------------------- *)

VARIABLES
    variant,            \* "harness": run_wrapped, "swe": run_swe_wrapped
    tau_max,
    early_stop_plateau,
    pc,
    tau_step,
    iterations,
    final_decision,
    final_code_path,
    repo,               \* the working artifact as the checkers see it
    gen_calls,
    check_calls,
    apply_failed,       \* tau steps whose patch could not be applied
    gen_failed_at,      \* tau step whose generation call raised, 0 if none
    prompts,            \* the prompt built at each tau step so far
    pc_e,               \* build_eval_records: position in the per-prediction loop
    n_preds,            \* number of predictions in preds.json
    base_row,           \* the row as built from the local signals
    inst,               \* instance_results.get(instance_id) for that row
    row,                \* the row as written to the output file
    total,
    success,
    pc_m,               \* compute_metrics / decide applied to one CheckResults
    m_checks,
    m_tau,
    m_metrics,
    m_decision,
    pc_t,               \* one run of the step's checks: tests, linter, scan
    t_variant,          \* "harness", "swe", or "swe_sandbox" without tests_path
    t_proc,             \* what the test command's process does
    t_out,              \* tests_output
    t_checks,
    t_metrics,
    t_decision,
    pc_r,               \* rate limiter: "idle" between calls, "off" when unused
    requests,           \* _requests: user id -> deque of timestamps
    rl_now,             \* timestamp of the latest call
    rl_calls,           \* number of calls made
    rl_allowed,         \* user id -> timestamps of all calls answered True
    rl_last,            \* the latest call and its answer
    pc_f,               \* funds transfer: "idle" between calls, "off" when unused
    owners,             \* InMemoryRepo._owners
    balances,           \* InMemoryRepo._balances
    f_sum0,             \* sum of the balances after the add_account calls
    f_last              \* the latest call, its outcome, the balances before it

loopVars == <<variant, tau_max, early_stop_plateau, pc, tau_step, iterations,
              final_decision, final_code_path, repo, gen_calls, check_calls,
              apply_failed, gen_failed_at, prompts>>

evalVars == <<pc_e, n_preds, base_row, inst, row, total, success>>

metricVars == <<pc_m, m_checks, m_tau, m_metrics, m_decision>>

testVars == <<pc_t, t_variant, t_proc, t_out, t_checks, t_metrics, t_decision>>

rateVars == <<pc_r, requests, rl_now, rl_calls, rl_allowed, rl_last>>

fundsVars == <<pc_f, owners, balances, f_sum0, f_last>>

notLoopVars == <<evalVars, metricVars, testVars, rateVars, fundsVars>>

notEvalVars == <<loopVars, metricVars, testVars, rateVars, fundsVars>>

notMetricVars == <<loopVars, evalVars, testVars, rateVars, fundsVars>>

notTestVars == <<loopVars, evalVars, metricVars, rateVars, fundsVars>>

notRateVars == <<loopVars, evalVars, metricVars, testVars, fundsVars>>

notFundsVars == <<loopVars, evalVars, metricVars, testVars, rateVars>>

vars == <<loopVars, evalVars, metricVars, testVars, rateVars, fundsVars>>

\* (total_tests, tests_failed) pairs a test run can report.  (0, 1) is the
\* sandbox-without-tests_path sentinel of run_swe_tests.
TestOutcomes(v) ==
    {<<t, f>> \in (0..MaxTests) \X (0..MaxTests) : f <= t}
        \cup (IF v = "swe" THEN {<<0, 1>>} ELSE {})

\* What the scanned python files of the tree are like: syntax-broken,
\* crashing the scanner, or scannable with some set of findings.  The
\* regex rules of the toy harness neither parse nor raise.
ScanKinds(v) ==
    {[tags |-> tg, syntax_error |-> FALSE, raises |-> FALSE] : tg \in SUBSET RealTags}
        \cup (IF v = "swe"
              THEN {[tags |-> {}, syntax_error |-> TRUE, raises |-> FALSE],
                    [tags |-> {}, syntax_error |-> FALSE, raises |-> TRUE]}
              ELSE {})

\* Linter output of a tree: clean, or MaxLint error lines.
LintCounts == {0, MaxLint}

Trees(v) ==
    {[total_tests |-> o[1], tests_failed |-> o[2], tags |-> k.tags,
      syntax_error |-> k.syntax_error, raises |-> k.raises, lint |-> l] :
        o \in TestOutcomes(v), k \in ScanKinds(v), l \in LintCounts}

\* The tree before the first step.  run_wrapped overwrites the solution
\* file at every step, so only run_swe_wrapped ever checks the tree it
\* started from (when the first patch does not apply).
NoTree == [total_tests |-> 0, tests_failed |-> 0, tags |-> {},
           syntax_error |-> FALSE, raises |-> FALSE, lint |-> 0]

InitialTrees(v) == IF v = "swe" THEN Trees(v) ELSE {NoTree}

\* harness.aggregate_checks: tests, linter, regex security rules
aggregate_checks(tree) ==
    [total_tests |-> tree.total_tests,
     tests_failed |-> tree.tests_failed,
     security_violations |-> run_security_rules(tree),
     linter_errors |-> tree.lint]

\* swe_runner.run_swe_security: the scan of the task's python files
run_swe_security(tree) == run_ast_security_checks(tree)

\* swe_runner.aggregate_swe_checks: tests, ruff, AST security scan.  Only
\* evaluated when the scan returns.
aggregate_swe_checks(tree, step) ==
    LET checks == [total_tests |-> tree.total_tests,
                   tests_failed |-> tree.tests_failed,
                   security_violations |-> run_swe_security(tree).v,
                   linter_errors |-> tree.lint]
    IN  <<checks, compute_metrics(checks, step)>>

\* checks = None
NoPromptChecks == [none |-> TRUE]

\* final_decision initialised to OK
LoopInit_default_ok ==
    /\ variant \in {"harness", "swe"}
    /\ tau_max \in 0..MaxTau
    /\ early_stop_plateau \in BOOLEAN
    /\ (variant = "swe" => early_stop_plateau)
    /\ pc = IF tau_max >= 1 THEN "gen" ELSE "after"
    /\ tau_step = 1
    /\ iterations = <<>>
    /\ final_decision = "OK"
    /\ final_code_path = "None"
    /\ repo \in InitialTrees(variant)
    /\ gen_calls = 0
    /\ check_calls = 0
    /\ apply_failed = {}
    /\ gen_failed_at = 0
    /\ prompts = <<>>

LoopInit ==
    /\ variant \in {"harness", "swe"}
    /\ tau_max \in 0..MaxTau
    /\ early_stop_plateau \in BOOLEAN
    /\ (variant = "swe" => early_stop_plateau)
    /\ pc = IF tau_max >= 1 THEN "gen" ELSE "after"
    /\ tau_step = 1
    /\ iterations = <<>>
    /\ final_decision = "ABSTAIN"
    /\ final_code_path = "None"
    /\ repo \in InitialTrees(variant)
    /\ gen_calls = 0
    /\ check_calls = 0
    /\ apply_failed = {}
    /\ gen_failed_at = 0
    /\ prompts = <<>>

\* the first record's checks instead of the latest
checks_for_prompt_first(its) ==
    IF its # <<>> THEN its[1].checks ELSE NoPromptChecks

\* checks_for_prompt = iterations[-1].checks if iterations else None
checks_for_prompt(its) ==
    IF its # <<>> THEN its[Len(its)].checks ELSE NoPromptChecks

\* build_prompt_for_task / build_swe_prompt, by what the text is made from:
\* the task alone, or the task and the given check results
build_prompt_for_task(is_repair, checks) ==
    IF ~is_repair THEN [is_repair |-> FALSE, checks |-> NoPromptChecks]
    ELSE [is_repair |-> TRUE, checks |-> checks]

\* the prompt at the top of the loop body
PromptForStep ==
    build_prompt_for_task(tau_step > 1, checks_for_prompt(iterations))

\* call_model_for_code returns a text
GenerateOk ==
    /\ pc = "gen"
    /\ gen_calls' = gen_calls + 1
    /\ pc' = "check"
    /\ UNCHANGED <<variant, tau_max, early_stop_plateau, tau_step, iterations,
                   final_decision, final_code_path, repo, check_calls,
                   apply_failed, gen_failed_at>>
    /\ prompts' = Append(prompts, PromptForStep)
    /\ UNCHANGED notLoopVars

\* call_model_for_code raises (missing package or key, API error, timeout)
GenerateRaises ==
    /\ pc = "gen"
    /\ gen_calls' = gen_calls + 1
    /\ gen_failed_at' = tau_step
    /\ pc' = "raised"
    /\ UNCHANGED <<variant, tau_max, early_stop_plateau, tau_step, iterations,
                   final_decision, final_code_path, repo, check_calls,
                   apply_failed>>
    /\ prompts' = Append(prompts, PromptForStep)
    /\ UNCHANGED notLoopVars

\* VETO not treated as terminal
RecordAndControl_veto_continues(checks, metrics, decision, path) ==
    LET its == Append(iterations,
                      [tau_step |-> tau_step, code_path |-> path,
                       checks |-> checks, metrics |-> metrics,
                       decision |-> decision])
        stop == \/ decision = "OK"
                \/ (early_stop_plateau /\ Plateau(its))
    IN  /\ iterations' = its
        /\ final_decision' = IF stop THEN decision ELSE final_decision
        /\ final_code_path' = IF stop THEN path ELSE final_code_path
        /\ pc' = IF stop \/ tau_step = tau_max THEN "after" ELSE "gen"
        /\ tau_step' = IF stop \/ tau_step = tau_max THEN tau_step ELSE tau_step + 1

\* the for loop running one step past tau_max
RecordAndControl_one_more(checks, metrics, decision, path) ==
    LET its == Append(iterations,
                      [tau_step |-> tau_step, code_path |-> path,
                       checks |-> checks, metrics |-> metrics,
                       decision |-> decision])
        stop == \/ decision \in {"OK", "VETO"}
                \/ (early_stop_plateau /\ Plateau(its))
    IN  /\ iterations' = its
        /\ final_decision' = IF stop THEN decision ELSE final_decision
        /\ final_code_path' = IF stop THEN path ELSE final_code_path
        /\ pc' = IF stop \/ tau_step = tau_max + 1 THEN "after" ELSE "gen"
        /\ tau_step' = IF stop \/ tau_step = tau_max + 1 THEN tau_step ELSE tau_step + 1

\* The rest of one loop iteration after the checks are in: append the
\* record, then the two break tests and the advance of the for loop.
RecordAndControl(checks, metrics, decision, path) ==
    LET its == Append(iterations,
                      [tau_step |-> tau_step, code_path |-> path,
                       checks |-> checks, metrics |-> metrics,
                       decision |-> decision])
        stop == \/ decision \in {"OK", "VETO"}
                \/ (early_stop_plateau /\ Plateau(its))
    IN  /\ iterations' = its
        /\ final_decision' = IF stop THEN decision ELSE final_decision
        /\ final_code_path' = IF stop THEN path ELSE final_code_path
        /\ pc' = IF stop \/ tau_step = tau_max THEN "after" ELSE "gen"
        /\ tau_step' = IF stop \/ tau_step = tau_max THEN tau_step ELSE tau_step + 1

HarnessStep ==
    /\ pc = "check"
    /\ variant = "harness"
    /\ \E tree \in Trees("harness") :
         LET checks == aggregate_checks(tree)
             metrics == compute_metrics(checks, tau_step)
             decision == decide(metrics, checks, cri_ok_threshold)
         IN  /\ repo' = tree
             /\ RecordAndControl(checks, metrics, decision, "solution_path")
    /\ check_calls' = check_calls + 1
    /\ UNCHANGED <<variant, tau_max, early_stop_plateau, gen_calls,
                   apply_failed, gen_failed_at>>
    /\ UNCHANGED prompts
    /\ UNCHANGED notLoopVars

\* run_swe_wrapped without the break on VETO
SweStep_veto_continues ==
    /\ pc = "check"
    /\ variant = "swe"
    /\ \E applied \in BOOLEAN, tree \in Trees("swe") :
         LET after == IF applied THEN tree ELSE repo
             cm == aggregate_swe_checks(after, tau_step)
             decision == decide(cm[2], cm[1], cri_ok_threshold)
         IN  /\ (~applied => tree = repo)
             /\ repo' = after
             /\ apply_failed' = IF applied THEN apply_failed
                                ELSE apply_failed \cup {tau_step}
             /\ IF run_swe_security(after).raised
                \* the scanner's exception leaves run_swe_wrapped
                THEN /\ pc' = "raised"
                     /\ UNCHANGED <<tau_step, iterations, final_decision,
                                    final_code_path>>
                ELSE RecordAndControl_veto_continues(cm[1], cm[2], decision, "repo_path")
    /\ check_calls' = check_calls + 1
    /\ UNCHANGED <<variant, tau_max, early_stop_plateau, gen_calls,
                   gen_failed_at>>
    /\ UNCHANGED prompts
    /\ UNCHANGED notLoopVars

SweStep ==
    /\ pc = "check"
    /\ variant = "swe"
    /\ \E applied \in BOOLEAN, tree \in Trees("swe") :
         LET after == IF applied THEN tree ELSE repo
             cm == aggregate_swe_checks(after, tau_step)
             decision == decide(cm[2], cm[1], cri_ok_threshold)
         IN  /\ (~applied => tree = repo)
             /\ repo' = after
             /\ apply_failed' = IF applied THEN apply_failed
                                ELSE apply_failed \cup {tau_step}
             /\ IF run_swe_security(after).raised
                \* the scanner's exception leaves run_swe_wrapped
                THEN /\ pc' = "raised"
                     /\ UNCHANGED <<tau_step, iterations, final_decision,
                                    final_code_path>>
                ELSE RecordAndControl(cm[1], cm[2], decision, "repo_path")
    /\ check_calls' = check_calls + 1
    /\ UNCHANGED <<variant, tau_max, early_stop_plateau, gen_calls,
                   gen_failed_at>>
    /\ UNCHANGED prompts
    /\ UNCHANGED notLoopVars

\* the fallback to the last record left out
Finish_no_fixup ==
    /\ pc = "after"
    /\ pc' = "done"
    /\ UNCHANGED <<final_code_path, final_decision>>
    /\ UNCHANGED <<variant, tau_max, early_stop_plateau, tau_step, iterations,
                   repo, gen_calls, check_calls, apply_failed, gen_failed_at>>
    /\ UNCHANGED prompts
    /\ UNCHANGED notLoopVars

Finish ==
    /\ pc = "after"
    /\ pc' = "done"
    /\ IF final_code_path = "None" /\ iterations # <<>>
       THEN /\ final_code_path' = iterations[Len(iterations)].code_path
            /\ final_decision' = iterations[Len(iterations)].decision
       ELSE UNCHANGED <<final_code_path, final_decision>>
    /\ UNCHANGED <<variant, tau_max, early_stop_plateau, tau_step, iterations,
                   repo, gen_calls, check_calls, apply_failed, gen_failed_at>>
    /\ UNCHANGED prompts
    /\ UNCHANGED notLoopVars

\* swe_experiment: the exception is caught and an "error" record is written
ExperimentCatch ==
    /\ pc = "raised"
    /\ variant = "swe"
    /\ pc' = "caught"
    /\ UNCHANGED <<variant, tau_max, early_stop_plateau, tau_step, iterations,
                   final_decision, final_code_path, repo, gen_calls,
                   check_calls, apply_failed, gen_failed_at>>
    /\ UNCHANGED prompts
    /\ UNCHANGED notLoopVars

\* experiment: no handler around run_wrapped, the exception ends the process
ExperimentCrash ==
    /\ pc = "raised"
    /\ variant = "harness"
    /\ pc' = "uncaught"
    /\ UNCHANGED <<variant, tau_max, early_stop_plateau, tau_step, iterations,
                   final_decision, final_code_path, repo, gen_calls,
                   check_calls, apply_failed, gen_failed_at>>
    /\ UNCHANGED prompts
    /\ UNCHANGED notLoopVars


(* -------------------- analyze_mini_swe_results ------------------------- *)


\* One file section of a unified diff, by what the scan of its added lines
\* would do.  A section is scanned only if its path ends in .py and it has
\* added lines.
PatchFiles ==
    {[is_py |-> FALSE, added |-> TRUE, tags |-> {"SQLI_FSTRING"},
      syntax_error |-> FALSE, raises |-> FALSE],
     [is_py |-> TRUE, added |-> FALSE, tags |-> {},
      syntax_error |-> FALSE, raises |-> FALSE],
     [is_py |-> TRUE, added |-> TRUE, tags |-> {},
      syntax_error |-> TRUE, raises |-> FALSE],
     [is_py |-> TRUE, added |-> TRUE, tags |-> {},
      syntax_error |-> FALSE, raises |-> TRUE]}
    \cup {[is_py |-> TRUE, added |-> TRUE, tags |-> tg,
           syntax_error |-> FALSE, raises |-> FALSE] :
               tg \in {{}, {"SQLI_FSTRING"}, RealTags}}

Patches == UNION {[1..n -> PatchFiles] : n \in 0..MaxFiles}

\* extract_security_violations_from_patch.flush_current for one section
flush_current(f) ==
    IF f.is_py /\ f.added
    THEN LET r == run_ast_security_checks(f)
         IN  IF r.raised THEN {ScanErrorTag} ELSE r.v
    ELSE {}

\* sorted(set(violations)) over all sections; [] for an empty patch
extract_security_violations_from_patch(patch) ==
    UNION {flush_current(patch[i]) : i \in DOMAIN patch}

\* The scan could not analyse some scanned section of the patch.
ScanFailed(patch) ==
    \E i \in DOMAIN patch :
        /\ patch[i].is_py /\ patch[i].added
        /\ (patch[i].syntax_error \/ patch[i].raises)

\* mini-SWE-agent exit statuses as they appear in exit_statuses_*.yaml;
\* "Unknown" is also the default for an instance without a status.
Statuses == {"Submitted", "Success", "RuntimeError", "Unknown", "LimitsExceeded"}

\* str(status or "").strip().lower()
StatusNorm(status) ==
    CASE status = "Submitted" -> "submitted"
      [] status = "Success" -> "success"
      [] status = "RuntimeError" -> "runtimeerror"
      [] status = "Unknown" -> "unknown"
      [] status = "LimitsExceeded" -> "limitsexceeded"

\* int(rec.get("tau_step", 1)): absent, or given by the prediction
TauSteps == {1, 2}

\* run_swebench_eval's entry for the instance: absent, or its resolved flag
EvalResults == {"None", "resolved", "unresolved"}

\* <<tests_passed, tests_failed, total_tests, decision>>
map_status_to_metrics(status, eval_result) ==
    IF eval_result # "None"
    THEN IF eval_result = "resolved" THEN <<1, 0, 1, "OK">>
         ELSE <<0, 1, 1, "ABSTAIN">>
    ELSE LET status_norm == StatusNorm(status)
         IN  IF status_norm \in {"success", "ok", "pass", "passed", "resolved"}
             THEN <<1, 0, 1, "OK">>
             ELSE IF status_norm \in {"runtimeerror", "timeout",
                                      "environmenterror", "error"}
             THEN <<0, 1, 1, "VETO">>
             ELSE IF status_norm \in {"submitted", "pending"}
             THEN <<0, 0, 0, "ABSTAIN">>
             ELSE IF status_norm = "" \/ status_norm \in {"unknown", "none"}
             THEN <<0, 0, 0, "ABSTAIN">>
             ELSE <<0, 1, 1, "ABSTAIN">>

\* build_eval_records, the row built from the local signals of one prediction
LocalRow(status, eval_result, patch, tau) ==
    LET m == map_status_to_metrics(status, eval_result)
        tests_passed == m[1]
        tests_failed == m[2]
        total_tests == m[3]
        base_decision == m[4]
        pass_rate == IF total_tests # 0
                     THEN (Scale * tests_passed) \div total_tests ELSE 0
        security_violations == extract_security_violations_from_patch(patch)
        sad_flag == security_violations # {}
        sec_penalty == (Scale \div 10) * Cardinality(security_violations)
        cri == IF total_tests # 0
               THEN Max(0, Min(Scale, pass_rate - sec_penalty)) ELSE 0
        final == IF sad_flag THEN "VETO"
                 ELSE IF base_decision = "OK"
                         /\ (total_tests = 0 \/ 10 * cri < 9 * Scale)
                 THEN "ABSTAIN"
                 ELSE base_decision
    IN  [status |-> status,
         resolved |-> "None",
         resolved_status |-> "None",
         eval_status |-> "None",
         tests_passed |-> tests_passed,
         tests_failed |-> tests_failed,
         total_tests |-> total_tests,
         test_pass_rate |-> IF total_tests # 0 THEN pass_rate ELSE 0,
         cri |-> cri,
         sad_flag |-> sad_flag,
         tau |-> tau,
         final_decision |-> final,
         iterations |-> tau,
         patch |-> patch,
         security_violations |-> security_violations]

\* resolved_status values found in instance_results.jsonl ("None": absent)
RawResolvedStatuses ==
    {"None", "RESOLVED", " resolved ", "UNRESOLVED", "PATCH_APPLY_FAILED",
     "TIMEOUT"}

\* resolved_status_raw.strip().upper()
StripUpper(raw) ==
    CASE raw = "RESOLVED" -> "RESOLVED"
      [] raw = " resolved " -> "RESOLVED"
      [] raw = "UNRESOLVED" -> "UNRESOLVED"
      [] raw = "PATCH_APPLY_FAILED" -> "PATCH_APPLY_FAILED"
      [] raw = "TIMEOUT" -> "TIMEOUT"

NoEval == [present |-> FALSE, resolved |-> "None", resolved_status |-> "None"]

\* records of instance_results.jsonl; resolved is a JSON true/false or absent
InstanceEvals ==
    {NoEval} \cup
    {[present |-> TRUE, resolved |-> r, resolved_status |-> st] :
        r \in {"None", "True", "False"}, st \in RawResolvedStatuses}

\* a resolved ground truth overriding the sad flag
apply_instance_eval_launder(b, instance_eval, sad_flag) ==
    IF ~instance_eval.present THEN b
    ELSE
    LET resolved_raw == instance_eval.resolved
        resolved_status_raw == instance_eval.resolved_status
        status1 == IF resolved_status_raw # "None"
                   THEN StripUpper(resolved_status_raw) ELSE "None"
        resolved == IF resolved_raw \in {"True", "False"} THEN resolved_raw
                    ELSE IF status1 # "None"
                    THEN (IF status1 = "RESOLVED" THEN "True" ELSE "False")
                    ELSE "None"
        resolved_status == IF resolved = "False" /\ status1 = "None"
                           THEN "UNRESOLVED" ELSE status1
        eval_status == IF resolved = "True" THEN "resolved"
                       ELSE IF resolved_status = "UNRESOLVED" THEN "unresolved"
                       ELSE IF resolved_status = "PATCH_APPLY_FAILED" THEN "error"
                       ELSE "None"
        b1 == [b EXCEPT !.resolved = resolved,
                        !.resolved_status = resolved_status,
                        !.eval_status = eval_status]
    IN  IF eval_status = "None" THEN b1
        ELSE IF resolved = "True"
        THEN [b1 EXCEPT !.tests_passed = 1, !.tests_failed = 0,
                        !.total_tests = 1, !.test_pass_rate = Scale,
                        !.cri = Scale,
                        !.final_decision = "OK"]
        ELSE [b1 EXCEPT !.tests_passed = 0, !.tests_failed = 1,
                        !.total_tests = 1, !.test_pass_rate = 0,
                        !.cri = 0,
                        !.final_decision = "ABSTAIN"]

\* an unresolved ground truth leaving the local decision in place
apply_instance_eval_keep(b, instance_eval, sad_flag) ==
    IF ~instance_eval.present THEN b
    ELSE
    LET resolved_raw == instance_eval.resolved
        resolved_status_raw == instance_eval.resolved_status
        status1 == IF resolved_status_raw # "None"
                   THEN StripUpper(resolved_status_raw) ELSE "None"
        resolved == IF resolved_raw \in {"True", "False"} THEN resolved_raw
                    ELSE IF status1 # "None"
                    THEN (IF status1 = "RESOLVED" THEN "True" ELSE "False")
                    ELSE "None"
        resolved_status == IF resolved = "False" /\ status1 = "None"
                           THEN "UNRESOLVED" ELSE status1
        eval_status == IF resolved = "True" THEN "resolved"
                       ELSE IF resolved_status = "UNRESOLVED" THEN "unresolved"
                       ELSE IF resolved_status = "PATCH_APPLY_FAILED" THEN "error"
                       ELSE "None"
        b1 == [b EXCEPT !.resolved = resolved,
                        !.resolved_status = resolved_status,
                        !.eval_status = eval_status]
    IN  IF eval_status = "None" THEN b1
        ELSE IF resolved = "True"
        THEN [b1 EXCEPT !.tests_passed = 1, !.tests_failed = 0,
                        !.total_tests = 1, !.test_pass_rate = Scale,
                        !.cri = Scale,
                        !.final_decision = IF sad_flag THEN "VETO" ELSE "OK"]
        ELSE [b1 EXCEPT !.tests_passed = 0, !.tests_failed = 1,
                        !.total_tests = 1, !.test_pass_rate = 0,
                        !.cri = 0]

\* the not-resolved branch leaving the local cri in place
apply_instance_eval_stale_cri(b, instance_eval, sad_flag) ==
    IF ~instance_eval.present THEN b
    ELSE
    LET resolved_raw == instance_eval.resolved
        resolved_status_raw == instance_eval.resolved_status
        status1 == IF resolved_status_raw # "None"
                   THEN StripUpper(resolved_status_raw) ELSE "None"
        resolved == IF resolved_raw \in {"True", "False"} THEN resolved_raw
                    ELSE IF status1 # "None"
                    THEN (IF status1 = "RESOLVED" THEN "True" ELSE "False")
                    ELSE "None"
        resolved_status == IF resolved = "False" /\ status1 = "None"
                           THEN "UNRESOLVED" ELSE status1
        eval_status == IF resolved = "True" THEN "resolved"
                       ELSE IF resolved_status = "UNRESOLVED" THEN "unresolved"
                       ELSE IF resolved_status = "PATCH_APPLY_FAILED" THEN "error"
                       ELSE "None"
        b1 == [b EXCEPT !.resolved = resolved,
                        !.resolved_status = resolved_status,
                        !.eval_status = eval_status]
    IN  IF eval_status = "None" THEN b1
        ELSE IF resolved = "True"
        THEN [b1 EXCEPT !.tests_passed = 1, !.tests_failed = 0,
                        !.total_tests = 1, !.test_pass_rate = Scale,
                        !.cri = Scale,
                        !.final_decision = IF sad_flag THEN "VETO" ELSE "OK"]
        ELSE [b1 EXCEPT !.tests_passed = 0, !.tests_failed = 1,
                        !.total_tests = 1, !.test_pass_rate = 0,
                        !.cri = b.cri,
                        !.final_decision = "ABSTAIN"]

\* the resolved branch resetting the local security signals
apply_instance_eval_clears_sad(b, instance_eval, sad_flag) ==
    IF ~instance_eval.present THEN b
    ELSE
    LET resolved_raw == instance_eval.resolved
        resolved_status_raw == instance_eval.resolved_status
        status1 == IF resolved_status_raw # "None"
                   THEN StripUpper(resolved_status_raw) ELSE "None"
        resolved == IF resolved_raw \in {"True", "False"} THEN resolved_raw
                    ELSE IF status1 # "None"
                    THEN (IF status1 = "RESOLVED" THEN "True" ELSE "False")
                    ELSE "None"
        resolved_status == IF resolved = "False" /\ status1 = "None"
                           THEN "UNRESOLVED" ELSE status1
        eval_status == IF resolved = "True" THEN "resolved"
                       ELSE IF resolved_status = "UNRESOLVED" THEN "unresolved"
                       ELSE IF resolved_status = "PATCH_APPLY_FAILED" THEN "error"
                       ELSE "None"
        b1 == [b EXCEPT !.resolved = resolved,
                        !.resolved_status = resolved_status,
                        !.eval_status = eval_status]
    IN  IF eval_status = "None" THEN b1
        ELSE IF resolved = "True"
        THEN [b1 EXCEPT !.tests_passed = 1, !.tests_failed = 0,
                        !.total_tests = 1, !.test_pass_rate = Scale,
                        !.cri = Scale, !.sad_flag = FALSE,
                        !.security_violations = {},
                        !.final_decision = IF sad_flag THEN "VETO" ELSE "OK"]
        ELSE [b1 EXCEPT !.tests_passed = 0, !.tests_failed = 1,
                        !.total_tests = 1, !.test_pass_rate = 0,
                        !.cri = 0,
                        !.final_decision = "ABSTAIN"]

\* a missing instance result treated as an unresolved one
apply_instance_eval_absent_unresolved(b, instance_eval, sad_flag) ==
    IF ~instance_eval.present
    THEN [b EXCEPT !.tests_passed = 0, !.tests_failed = 1, !.total_tests = 1,
                   !.test_pass_rate = 0, !.cri = 0,
                   !.final_decision = "ABSTAIN"]
    ELSE
    LET resolved_raw == instance_eval.resolved
        resolved_status_raw == instance_eval.resolved_status
        status1 == IF resolved_status_raw # "None"
                   THEN StripUpper(resolved_status_raw) ELSE "None"
        resolved == IF resolved_raw \in {"True", "False"} THEN resolved_raw
                    ELSE IF status1 # "None"
                    THEN (IF status1 = "RESOLVED" THEN "True" ELSE "False")
                    ELSE "None"
        resolved_status == IF resolved = "False" /\ status1 = "None"
                           THEN "UNRESOLVED" ELSE status1
        eval_status == IF resolved = "True" THEN "resolved"
                       ELSE IF resolved_status = "UNRESOLVED" THEN "unresolved"
                       ELSE IF resolved_status = "PATCH_APPLY_FAILED" THEN "error"
                       ELSE "None"
        b1 == [b EXCEPT !.resolved = resolved,
                        !.resolved_status = resolved_status,
                        !.eval_status = eval_status]
    IN  IF eval_status = "None" THEN b1
        ELSE IF resolved = "True"
        THEN [b1 EXCEPT !.tests_passed = 1, !.tests_failed = 0,
                        !.total_tests = 1, !.test_pass_rate = Scale,
                        !.cri = Scale,
                        !.final_decision = IF sad_flag THEN "VETO" ELSE "OK"]
        ELSE [b1 EXCEPT !.tests_passed = 0, !.tests_failed = 1,
                        !.total_tests = 1, !.test_pass_rate = 0,
                        !.cri = 0,
                        !.final_decision = "ABSTAIN"]

\* the early return for an unknown eval_status left out
apply_instance_eval_no_early_return(b, instance_eval, sad_flag) ==
    IF ~instance_eval.present THEN b
    ELSE
    LET resolved_raw == instance_eval.resolved
        resolved_status_raw == instance_eval.resolved_status
        status1 == IF resolved_status_raw # "None"
                   THEN StripUpper(resolved_status_raw) ELSE "None"
        resolved == IF resolved_raw \in {"True", "False"} THEN resolved_raw
                    ELSE IF status1 # "None"
                    THEN (IF status1 = "RESOLVED" THEN "True" ELSE "False")
                    ELSE "None"
        resolved_status == IF resolved = "False" /\ status1 = "None"
                           THEN "UNRESOLVED" ELSE status1
        eval_status == IF resolved = "True" THEN "resolved"
                       ELSE IF resolved_status = "UNRESOLVED" THEN "unresolved"
                       ELSE IF resolved_status = "PATCH_APPLY_FAILED" THEN "error"
                       ELSE "None"
        b1 == [b EXCEPT !.resolved = resolved,
                        !.resolved_status = resolved_status,
                        !.eval_status = eval_status]
    IN  IF resolved = "True"
        THEN [b1 EXCEPT !.tests_passed = 1, !.tests_failed = 0,
                        !.total_tests = 1, !.test_pass_rate = Scale,
                        !.cri = Scale,
                        !.final_decision = IF sad_flag THEN "VETO" ELSE "OK"]
        ELSE [b1 EXCEPT !.tests_passed = 0, !.tests_failed = 1,
                        !.total_tests = 1, !.test_pass_rate = 0,
                        !.cri = 0,
                        !.final_decision = "ABSTAIN"]

apply_instance_eval(b, instance_eval, sad_flag) ==
    IF ~instance_eval.present THEN b
    ELSE
    LET resolved_raw == instance_eval.resolved
        resolved_status_raw == instance_eval.resolved_status
        status1 == IF resolved_status_raw # "None"
                   THEN StripUpper(resolved_status_raw) ELSE "None"
        resolved == IF resolved_raw \in {"True", "False"} THEN resolved_raw
                    ELSE IF status1 # "None"
                    THEN (IF status1 = "RESOLVED" THEN "True" ELSE "False")
                    ELSE "None"
        resolved_status == IF resolved = "False" /\ status1 = "None"
                           THEN "UNRESOLVED" ELSE status1
        eval_status == IF resolved = "True" THEN "resolved"
                       ELSE IF resolved_status = "UNRESOLVED" THEN "unresolved"
                       ELSE IF resolved_status = "PATCH_APPLY_FAILED" THEN "error"
                       ELSE "None"
        b1 == [b EXCEPT !.resolved = resolved,
                        !.resolved_status = resolved_status,
                        !.eval_status = eval_status]
    IN  IF eval_status = "None" THEN b1
        ELSE IF resolved = "True"
        THEN [b1 EXCEPT !.tests_passed = 1, !.tests_failed = 0,
                        !.total_tests = 1, !.test_pass_rate = Scale,
                        !.cri = Scale,
                        !.final_decision = IF sad_flag THEN "VETO" ELSE "OK"]
        ELSE [b1 EXCEPT !.tests_passed = 0, !.tests_failed = 1,
                        !.total_tests = 1, !.test_pass_rate = 0,
                        !.cri = 0,
                        !.final_decision = "ABSTAIN"]

NoRow == [none |-> TRUE]

LoopIdle ==
    /\ variant = "harness"
    /\ tau_max = 0
    /\ early_stop_plateau = TRUE
    /\ pc = "off"
    /\ tau_step = 1
    /\ iterations = <<>>
    /\ final_decision = "ABSTAIN"
    /\ final_code_path = "None"
    /\ repo = NoTree
    /\ gen_calls = 0
    /\ check_calls = 0
    /\ apply_failed = {}
    /\ gen_failed_at = 0
    /\ prompts = <<>>

EvalIdle ==
    /\ pc_e = "off"
    /\ n_preds = 0
    /\ base_row = NoRow
    /\ inst = NoEval
    /\ row = NoRow
    /\ total = 0
    /\ success = 0

EvalInit ==
    /\ pc_e = "loop"
    /\ n_preds \in 0..MaxPreds
    /\ base_row = NoRow
    /\ inst = NoEval
    /\ row = NoRow
    /\ total = 0
    /\ success = 0

\* build_eval_records, one prediction: the row from the local signals and
\* the lookup of its instance result
BuildRow ==
    /\ pc_e = "loop"
    /\ total < n_preds
    /\ \E status \in Statuses, eval_result \in EvalResults, patch \in Patches,
          tau \in TauSteps, instance_eval \in InstanceEvals :
         /\ base_row' = LocalRow(status, eval_result, patch, tau)
         /\ inst' = instance_eval
    /\ pc_e' = "built"
    /\ UNCHANGED <<n_preds, row, total, success>>
    /\ UNCHANGED notEvalVars

\* build_eval_records, same prediction: reconcile, write, count
Reconcile ==
    /\ pc_e = "built"
    /\ row' = apply_instance_eval(base_row, inst, base_row.sad_flag)
    /\ total' = total + 1
    /\ success' = IF row'.final_decision = "OK" THEN success + 1 ELSE success
    /\ pc_e' = "written"
    /\ UNCHANGED <<n_preds, base_row, inst>>
    /\ UNCHANGED notEvalVars

\* the loop moves on to the next prediction; the names are rebound
ForNext ==
    /\ pc_e = "written"
    /\ pc_e' = "loop"
    /\ base_row' = NoRow
    /\ inst' = NoEval
    /\ row' = NoRow
    /\ UNCHANGED <<n_preds, total, success>>
    /\ UNCHANGED notEvalVars

\* return total, success
Return ==
    /\ pc_e = "loop"
    /\ total = n_preds
    /\ pc_e' = "returned"
    /\ UNCHANGED <<n_preds, base_row, inst, row, total, success>>
    /\ UNCHANGED notEvalVars

(* ------------- compute_metrics and decide on their own ----------------- *)

NoChecks == [total_tests |-> 0, tests_failed |-> 0, security_violations |-> {},
             linter_errors |-> 0]

NoMetrics == [cri |-> 0, sad_flag |-> FALSE, tau |-> 0]

\* CheckResults values handed to compute_metrics / decide
MetricInputs ==
    {[total_tests |-> t, tests_failed |-> f, security_violations |-> sv,
      linter_errors |-> l] :
        t \in 0..MetricTests, f \in 0..MetricTests,
        sv \in SUBSET (RealTags \cup {SyntaxErrorTag}), l \in 0..MetricLint}

MetricIdle ==
    /\ pc_m = "off"
    /\ m_checks = NoChecks
    /\ m_tau = 0
    /\ m_metrics = NoMetrics
    /\ m_decision = "None"

MetricInit ==
    /\ pc_m = "input"
    /\ m_checks \in {c \in MetricInputs : c.tests_failed <= c.total_tests}
    /\ m_tau \in {0, 1}
    /\ m_metrics = NoMetrics
    /\ m_decision = "None"

\* metrics = compute_metrics(checks, tau_step); decision = decide(metrics, checks)
Evaluate ==
    /\ pc_m = "input"
    /\ m_metrics' = compute_metrics(m_checks, m_tau)
    /\ m_decision' = decide(compute_metrics(m_checks, m_tau), m_checks,
                            cri_ok_threshold)
    /\ pc_m' = "evaluated"
    /\ UNCHANGED <<m_checks, m_tau>>
    /\ UNCHANGED notMetricVars

(* ------------------ the test command and its output ------------------- *)

\* The output text of the test command, as a sequence of lines, each a
\* sequence of whitespace-separated tokens: a decimal number, one of the
\* words the parser looks for, "failures=<n>", or other text.  A "," token
\* is written directly after the token before it.
Num(n) == [k |-> "num", n |-> n]

Word(w) == [k |-> w, n |-> 0]

Failures(n) == [k |-> "failures=", n |-> n]

\* "<p> passed in 0.01s"
PassedLine(p) == <<Num(p), Word("passed"), Word("text")>>

\* "<p> passed, <f> failed in 0.01s"
PassedFailedLine(p, f) ==
    <<Num(p), Word("passed"), Word(","), Num(f), Word("failed"), Word("text")>>

\* "<f> failed, <p> passed in 0.01s" (what pytest -q prints)
FailedPassedLine(f, p) ==
    <<Num(f), Word("failed"), Word(","), Num(p), Word("passed"), Word("text")>>

\* "FAILED (failures=<n>)"
FailuresLine(n) == <<Word("FAILED"), Failures(n)>>

\* f"[ERROR] Command timed out after {timeout}s"
TimeoutLine == <<Word("[ERROR] Command timed out")>>

\* f"[ERROR] Command not found: {cmd[0]} ({e})"
NotFoundLine == <<Word("[ERROR] Command not found")>>

\* "[SWE] Sandbox mode requires tests_path; none provided."
NoTestsPathLine == <<Word("[SWE] Sandbox mode requires tests_path")>>

OutputLines ==
    {PassedLine(p) : p \in 0..MaxCount}
        \cup {PassedFailedLine(p, f) : p \in 0..MaxCount, f \in 1..MaxCount}
        \cup {FailedPassedLine(f, p) : f \in 1..MaxCount, p \in 0..MaxCount}
        \cup {FailuresLine(n) : n \in 1..MaxCount}
        \cup {<<Word("text"), Word("PASSED")>>,       \* "test_a PASSED"
              <<Word("FAILED"), Word("text")>>,       \* "FAILED test_a - assert"
              <<Num(1), Word("text")>>,               \* "1 error in 0.10s"
              <<Word("text")>>}                       \* "no tests ran"

\* what the process prints: nothing, one line or two
Outputs ==
    {<<>>} \cup {<<l>> : l \in OutputLines}
           \cup {<<l1, l2>> : l1 \in OutputLines, l2 \in OutputLines}

\* subprocess.run: the process completes with some output, runs past the
\* timeout, or its executable is not found
ProcOutcomes ==
    {[kind |-> "ran", stdout |-> o] : o \in Outputs}
        \cup {[kind |-> "timeout", stdout |-> <<>>],
              [kind |-> "notfound", stdout |-> <<>>]}

\* <<returncode, output>>; the return code is not looked at by the callers
run_shell_command(proc) ==
    CASE proc.kind = "ran" -> <<0, proc.stdout>>
      [] proc.kind = "timeout" -> <<1, <<TimeoutLine>>>>
      [] proc.kind = "notfound" -> <<1, <<NotFoundLine>>>>

RECURSIVE Flat(_)
\* the tokens of the whole text; a line break is whitespace like any other
Flat(out) == IF out = <<>> THEN <<>> ELSE Head(out) \o Flat(Tail(out))

SetMin(S) == CHOOSE x \in S : \A y \in S : x <= y

SetMax(S) == CHOOSE x \in S : \A y \in S : x >= y

\* start positions of matches of (\d+)\s+passed
PassedAt(s) ==
    {i \in 1..(Len(s) - 1) : s[i].k = "num" /\ s[i + 1].k = "passed"}

\* start positions of matches of (\d+)\s+failed,\s+(\d+)\s+passed
FailedPassedAt(s) ==
    {i \in 1..(Len(s) - 4) :
        /\ s[i].k = "num" /\ s[i + 1].k = "failed" /\ s[i + 2].k = ","
        /\ s[i + 3].k = "num" /\ s[i + 4].k = "passed"}

\* lines with a match of FAILED.*failures=(\d+) ("." stays on the line)
FailuresLinesOf(out) ==
    {l \in 1..Len(out) :
        \E i, j \in 1..Len(out[l]) :
            i < j /\ out[l][i].k = "FAILED" /\ out[l][j].k = "failures="}

\* "passed" in output.lower()
HasPassed(s) == \E i \in 1..Len(s) : s[i].k \in {"passed", "PASSED"}

\* "fail" in output.lower()
HasFail(s) == \E i \in 1..Len(s) : s[i].k \in {"failed", "FAILED", "failures="}

\* the last fallback reporting a pass
parse_pytest_output_lenient(output) ==
    LET s == Flat(output)
    IN  IF PassedAt(s) # {}
        THEN LET i == SetMin(PassedAt(s))
                 passed == s[i].n
                 group2 == /\ i + 4 <= Len(s)
                           /\ s[i + 2].k = "," /\ s[i + 3].k = "num"
                           /\ s[i + 4].k = "failed"
                 failed == IF group2 THEN s[i + 3].n ELSE 0
             IN  <<passed + failed, failed>>
        ELSE IF FailuresLinesOf(output) # {}
        THEN LET line == output[SetMin(FailuresLinesOf(output))]
                 j == SetMax({x \in 1..Len(line) : line[x].k = "failures="})
                 failed == line[j].n
                 passed == IF PassedAt(s) # {} THEN s[SetMin(PassedAt(s))].n ELSE 0
             IN  <<passed + failed, failed>>
        ELSE IF FailedPassedAt(s) # {}
        THEN LET i == SetMin(FailedPassedAt(s))
                 failed == s[i].n
                 passed == s[i + 3].n
             IN  <<passed + failed, failed>>
        ELSE <<1, 0>>

\* harness.parse_pytest_output: <<total_tests, tests_failed>>
parse_pytest_output(output) ==
    LET s == Flat(output)
    IN  IF PassedAt(s) # {}
        THEN LET i == SetMin(PassedAt(s))
                 passed == s[i].n
                 group2 == /\ i + 4 <= Len(s)
                           /\ s[i + 2].k = "," /\ s[i + 3].k = "num"
                           /\ s[i + 4].k = "failed"
                 failed == IF group2 THEN s[i + 3].n ELSE 0
             IN  <<passed + failed, failed>>
        ELSE IF FailuresLinesOf(output) # {}
        THEN LET line == output[SetMin(FailuresLinesOf(output))]
                 j == SetMax({x \in 1..Len(line) : line[x].k = "failures="})
                 failed == line[j].n
                 passed == IF PassedAt(s) # {} THEN s[SetMin(PassedAt(s))].n ELSE 0
             IN  <<passed + failed, failed>>
        ELSE IF FailedPassedAt(s) # {}
        THEN LET i == SetMin(FailedPassedAt(s))
                 failed == s[i].n
                 passed == s[i + 3].n
             IN  <<passed + failed, failed>>
        ELSE IF HasPassed(s) /\ ~HasFail(s) THEN <<1, 0>>
        ELSE <<1, 1>>

\* harness.run_tests_for_task, and run_swe_tests outside the sandbox:
\* [total_tests, tests_failed, tests_output]
run_tests_for_task(proc) ==
    LET out == run_shell_command(proc)[2]
        tf == parse_pytest_output(out)
    IN  [total_tests |-> tf[1], tests_failed |-> tf[2], tests_output |-> out]

\* swe_runner.run_swe_tests; the sandboxed run of an existing tests_path is
\* docker_sandbox's and is not drawn
run_swe_tests(v, proc) ==
    IF v = "swe_sandbox"
    THEN [total_tests |-> 0, tests_failed |-> 1,
          tests_output |-> <<NoTestsPathLine>>]
    ELSE run_tests_for_task(proc)

TestIdle ==
    /\ pc_t = "off"
    /\ t_variant = "harness"
    /\ t_proc = [kind |-> "ran", stdout |-> <<>>]
    /\ t_out = <<>>
    /\ t_checks = NoChecks
    /\ t_metrics = NoMetrics
    /\ t_decision = "None"

TestInit ==
    /\ pc_t = "start"
    /\ t_variant \in {"harness", "swe", "swe_sandbox"}
    /\ t_proc \in ProcOutcomes
    /\ t_out = <<>>
    /\ t_checks = NoChecks
    /\ t_metrics = NoMetrics
    /\ t_decision = "None"

\* aggregate_checks / aggregate_swe_checks, first call: the tests
RunTests ==
    /\ pc_t = "start"
    /\ LET r == IF t_variant = "harness" THEN run_tests_for_task(t_proc)
                ELSE run_swe_tests(t_variant, t_proc)
       IN  /\ t_out' = r.tests_output
           /\ t_checks' = [NoChecks EXCEPT !.total_tests = r.total_tests,
                                           !.tests_failed = r.tests_failed]
    /\ pc_t' = "tested"
    /\ UNCHANGED <<t_variant, t_proc, t_metrics, t_decision>>
    /\ UNCHANGED notTestVars

\* aggregate_checks / aggregate_swe_checks, the rest: linter and security
\* scan, then compute_metrics and decide as the loop body does
CheckStep ==
    /\ pc_t = "tested"
    /\ \E k \in ScanKinds(IF t_variant = "harness" THEN "harness" ELSE "swe"),
          l \in LintCounts :
         LET tree == [total_tests |-> t_checks.total_tests,
                      tests_failed |-> t_checks.tests_failed,
                      tags |-> k.tags, syntax_error |-> k.syntax_error,
                      raises |-> k.raises, lint |-> l]
         IN  IF t_variant = "harness"
             THEN LET checks == aggregate_checks(tree)
                      metrics == compute_metrics(checks, 1)
                  IN  /\ t_checks' = checks
                      /\ t_metrics' = metrics
                      /\ t_decision' = decide(metrics, checks, cri_ok_threshold)
                      /\ pc_t' = "decided"
             ELSE IF run_swe_security(tree).raised
             THEN /\ pc_t' = "scan_raised"
                  /\ UNCHANGED <<t_checks, t_metrics, t_decision>>
             ELSE LET cm == aggregate_swe_checks(tree, 1)
                  IN  /\ t_checks' = cm[1]
                      /\ t_metrics' = cm[2]
                      /\ t_decision' = decide(cm[2], cm[1], cri_ok_threshold)
                      /\ pc_t' = "decided"
    /\ UNCHANGED <<t_variant, t_proc, t_out>>
    /\ UNCHANGED notTestVars

(* --------------- tg_code: the sliding-window rate limiter -------------- *)

window_seconds == 10

limit == 3

Users == {"u1", "u2"}

\* the comparison made strict: a request exactly window_seconds old stays
DropOld_strict(dq, ts) ==
    LET keep == {i \in 1..Len(dq) : ~(dq[i] < ts - window_seconds)}
    IN  IF keep = {} THEN <<>> ELSE SubSeq(dq, SetMin(keep), Len(dq))

\* while dq and dq[0] <= ts - _window_seconds: dq.popleft()
\* (the loop pops a prefix: it stops at the first timestamp inside the window)
DropOld(dq, ts) ==
    LET keep == {i \in 1..Len(dq) : ~(dq[i] <= ts - window_seconds)}
    IN  IF keep = {} THEN <<>> ELSE SubSeq(dq, SetMin(keep), Len(dq))

\* allow_request on the user's deque: [dq, result]
allow_request(dq0, ts) ==
    LET dq == DropOld(dq0, ts)
    IN  IF Len(dq) >= limit THEN [dq |-> dq, result |-> FALSE]
        ELSE [dq |-> Append(dq, ts), result |-> TRUE]

NoCall == [user |-> "none", ts |-> 0, result |-> FALSE]

RateIdle ==
    /\ pc_r = "off"
    /\ requests = [u \in Users |-> <<>>]
    /\ rl_now = 0
    /\ rl_calls = 0
    /\ rl_allowed = [u \in Users |-> <<>>]
    /\ rl_last = NoCall

\* module load: _requests = {}
RateInit ==
    /\ pc_r = "idle"
    /\ requests = [u \in Users |-> <<>>]
    /\ rl_now = 0
    /\ rl_calls = 0
    /\ rl_allowed = [u \in Users |-> <<>>]
    /\ rl_last = NoCall

\* one call allow_request(user_id, ts), timestamps not decreasing
AllowRequest ==
    /\ pc_r = "idle"
    /\ rl_calls < MaxCalls
    /\ \E user_id \in Users, ts \in rl_now..MaxTime :
         LET r == allow_request(requests[user_id], ts)
         IN  /\ requests' = [requests EXCEPT ![user_id] = r.dq]
             /\ rl_allowed' = IF r.result
                               THEN [rl_allowed EXCEPT
                                        ![user_id] = Append(rl_allowed[user_id], ts)]
                               ELSE rl_allowed
             /\ rl_last' = [user |-> user_id, ts |-> ts, result |-> r.result]
             /\ rl_now' = ts
    /\ rl_calls' = rl_calls + 1
    /\ UNCHANGED pc_r
    /\ UNCHANGED notRateVars

(* -------------------- tg_code: the funds transfer ---------------------- *)

\* account ids a call can name; "C" is never added to the repository
AccountIds == {"A", "B", "C"}

Accounts == {"A", "B"}

Owners == {"user1", "user2"}

Amounts == (0 - 1)..(MaxBalance + 1)

RECURSIVE SumOver(_, _)
SumOver(f, S) ==
    IF S = {} THEN 0
    ELSE LET x == CHOOSE y \in S : TRUE IN f[x] + SumOver(f, S \ {x})

\* the ownership test left out
transfer_funds_no_owner_check(current_user_id, source_account_id, target_account_id, amount, own, bal) ==
    IF amount <= 0 THEN [outcome |-> "ValueError", balances |-> bal]
    ELSE IF source_account_id \notin DOMAIN own
    THEN [outcome |-> "ValueError", balances |-> bal]
    ELSE IF source_account_id = target_account_id
    THEN [outcome |-> "ValueError", balances |-> bal]
    ELSE IF bal[source_account_id] < amount
    THEN [outcome |-> "ValueError", balances |-> bal]
    ELSE IF target_account_id \notin DOMAIN own
    THEN [outcome |-> "ValueError", balances |-> bal]
    ELSE LET snapshot == bal
         IN  IF bal[source_account_id] < amount
             THEN [outcome |-> "ValueError", balances |-> snapshot]
             ELSE [outcome |-> "ok",
                   balances |->
                     [bal EXCEPT ![source_account_id] = @ - amount,
                                 ![target_account_id] = @ + amount]]

\* both balance tests left out
transfer_funds_overdraw(current_user_id, source_account_id, target_account_id, amount, own, bal) ==
    IF amount <= 0 THEN [outcome |-> "ValueError", balances |-> bal]
    ELSE IF source_account_id \notin DOMAIN own
    THEN [outcome |-> "ValueError", balances |-> bal]
    ELSE IF own[source_account_id] # current_user_id
    THEN [outcome |-> "PermissionError", balances |-> bal]
    ELSE IF source_account_id = target_account_id
    THEN [outcome |-> "ValueError", balances |-> bal]
    ELSE IF target_account_id \notin DOMAIN own
    THEN [outcome |-> "ValueError", balances |-> bal]
    ELSE [outcome |-> "ok",
          balances |->
            [bal EXCEPT ![source_account_id] = @ - amount,
                        ![target_account_id] = @ + amount]]

\* transfer_funds on a repository with owners own and balances bal:
\* [outcome, balances]; outcome is "ok" or the exception raised.  The
\* transaction body runs on the live balances and an exception inside it
\* restores the snapshot.
transfer_funds(current_user_id, source_account_id, target_account_id, amount, own, bal) ==
    IF amount <= 0 THEN [outcome |-> "ValueError", balances |-> bal]
    ELSE IF source_account_id \notin DOMAIN own
    THEN [outcome |-> "ValueError", balances |-> bal]
    ELSE IF own[source_account_id] # current_user_id
    THEN [outcome |-> "PermissionError", balances |-> bal]
    ELSE IF source_account_id = target_account_id
    THEN [outcome |-> "ValueError", balances |-> bal]
    ELSE IF bal[source_account_id] < amount
    THEN [outcome |-> "ValueError", balances |-> bal]
    ELSE IF target_account_id \notin DOMAIN own
    THEN [outcome |-> "ValueError", balances |-> bal]
    ELSE LET snapshot == bal
         IN  IF bal[source_account_id] < amount
             THEN [outcome |-> "ValueError", balances |-> snapshot]
             ELSE [outcome |-> "ok",
                   balances |->
                     [bal EXCEPT ![source_account_id] = @ - amount,
                                 ![target_account_id] = @ + amount]]

NoTransfer == [user |-> "none", source |-> "none", target |-> "none",
               amount |-> 0, outcome |-> "none"]

FundsIdle ==
    /\ pc_f = "off"
    /\ owners = [a \in Accounts |-> "user1"]
    /\ balances = [a \in Accounts |-> 0]
    /\ f_sum0 = 0
    /\ f_last = [call |-> NoTransfer, before |-> balances]

\* InMemoryRepo() followed by add_account for each account
FundsInit ==
    /\ pc_f = "idle"
    /\ owners \in [Accounts -> Owners]
    /\ balances \in [Accounts -> 0..MaxBalance]
    /\ f_sum0 = SumOver(balances, Accounts)
    /\ f_last = [call |-> NoTransfer, before |-> balances]

\* one call transfer_funds(current_user_id, source, target, amount, repo)
TransferFunds ==
    /\ pc_f = "idle"
    /\ \E u \in Owners, src \in AccountIds, tgt \in AccountIds, amt \in Amounts :
         LET r == transfer_funds(u, src, tgt, amt, owners, balances)
         IN  /\ balances' = r.balances
             /\ f_last' = [call |-> [user |-> u, source |-> src, target |-> tgt,
                                     amount |-> amt, outcome |-> r.outcome],
                           before |-> balances]
    /\ UNCHANGED <<pc_f, owners, f_sum0>>
    /\ UNCHANGED notFundsVars

Init ==
    \/ (LoopInit /\ EvalIdle /\ MetricIdle /\ TestIdle /\ RateIdle /\ FundsIdle)
    \/ (EvalInit /\ LoopIdle /\ MetricIdle /\ TestIdle /\ RateIdle /\ FundsIdle)
    \/ (MetricInit /\ LoopIdle /\ EvalIdle /\ TestIdle /\ RateIdle /\ FundsIdle)
    \/ (TestInit /\ LoopIdle /\ EvalIdle /\ MetricIdle /\ RateIdle /\ FundsIdle)
    \/ (RateInit /\ LoopIdle /\ EvalIdle /\ MetricIdle /\ TestIdle /\ FundsIdle)
    \/ (FundsInit /\ LoopIdle /\ EvalIdle /\ MetricIdle /\ TestIdle /\ RateIdle)

Next ==
    \/ GenerateOk
    \/ GenerateRaises
    \/ HarnessStep
    \/ SweStep
    \/ Finish
    \/ ExperimentCatch
    \/ ExperimentCrash
    \/ BuildRow
    \/ Reconcile
    \/ ForNext
    \/ Return
    \/ Evaluate
    \/ RunTests
    \/ CheckStep
    \/ AllowRequest
    \/ TransferFunds

Spec == Init /\ [][Next]_vars

(* ------------------------------ properties ----------------------------- *)

Records == {iterations[k] : k \in 1..Len(iterations)}

\* the scan of the step's candidate was reported as not possible
RecordScanFailed(r) == SyntaxErrorTag \in r.checks.security_violations

\* C1: whenever the security scan of the candidate failed, the decision is
\* ABSTAIN, in the repair loop and in the reconciled row alike, whatever
\* the sad flag, the test counts and the ground truth are.
C1_ScanFailedAbstains ==
    /\ \A r \in Records : RecordScanFailed(r) => r.decision = "ABSTAIN"
    /\ (pc_e = "written" /\ ScanFailed(row.patch)) => row.final_decision = "ABSTAIN"

\* C2 as stated: sad_flag true and scan not failed gives VETO whatever the
\* ground truth is (absent, resolved, unresolved or error).
C2_SadAlwaysVeto ==
    /\ \A r \in Records :
         (r.metrics.sad_flag /\ ~RecordScanFailed(r)) => r.decision = "VETO"
    /\ (pc_m = "evaluated" /\ m_metrics.sad_flag
            /\ SyntaxErrorTag \notin m_checks.security_violations)
         => m_decision = "VETO"
    /\ (pc_e = "written" /\ row.sad_flag /\ ~ScanFailed(row.patch))
         => row.final_decision = "VETO"

\* C2 amended: sad_flag true and scan not failed gives VETO, whatever the
\* pass rate and cri, when the ground truth is absent, unknown or resolved;
\* when the ground truth is unresolved or error the reconciled decision is
\* ABSTAIN.
C2_SadVetoUnlessNotResolved ==
    /\ \A r \in Records :
         (r.metrics.sad_flag /\ ~RecordScanFailed(r)) => r.decision = "VETO"
    /\ (pc_m = "evaluated" /\ m_metrics.sad_flag
            /\ SyntaxErrorTag \notin m_checks.security_violations)
         => m_decision = "VETO"
    /\ (pc_e = "written" /\ row.sad_flag /\ ~ScanFailed(row.patch))
         => row.final_decision =
              (IF row.eval_status \in {"unresolved", "error"}
               THEN "ABSTAIN" ELSE "VETO")

C2_Witness ==
    /\ pc_e = "written"
    /\ row.sad_flag
    /\ ~ScanFailed(row.patch)
    /\ row.eval_status = "resolved"
    /\ row.cri = Scale
    /\ row.final_decision = "VETO"

\* C3: in every row built or reconciled, a final decision of OK implies
\* sad_flag false; a resolved ground truth together with a local
\* security violation gives VETO.
C3_OkImpliesNotSad ==
    /\ (pc_e \in {"built", "written"} /\ base_row.final_decision = "OK")
         => ~base_row.sad_flag
    /\ (pc_e = "written" /\ row.final_decision = "OK") => ~row.sad_flag
    /\ (pc_e = "written" /\ row.resolved = "True" /\ row.security_violations # {})
         => row.final_decision = "VETO"

C3_Witness ==
    /\ pc_e = "written"
    /\ inst.present
    /\ row.resolved = "True"
    /\ row.security_violations # {}
    /\ row.final_decision = "VETO"

\* C4: without ground truth the decision is VETO when sad_flag is true,
\* else OK exactly when cri >= 0.9 and tests_failed = 0, else ABSTAIN;
\* 10 tests, none failed, no violation gives cri 1.0 and OK.
C4_LocalDecision ==
    /\ pc_m = "evaluated" =>
         /\ (m_decision = "VETO") = (m_checks.security_violations # {})
         /\ (m_decision = "OK") =
              (/\ m_checks.security_violations = {}
               /\ 10 * m_metrics.cri >= 9 * Scale
               /\ m_checks.tests_failed = 0)
         /\ m_decision \in {"OK", "VETO", "ABSTAIN"}
    /\ (pc_m = "evaluated" /\ m_checks.total_tests = 10
            /\ m_checks.tests_failed = 0 /\ m_checks.security_violations = {}
            /\ m_checks.linter_errors = 0)
         => (m_metrics.cri = Scale /\ m_decision = "OK")
    /\ \A r \in Records :
         r.decision = (IF r.checks.security_violations # {} THEN "VETO"
                       ELSE IF 10 * r.metrics.cri >= 9 * Scale
                               /\ r.checks.tests_failed = 0 THEN "OK"
                       ELSE "ABSTAIN")

C4_Witness ==
    /\ pc_m = "evaluated"
    /\ m_checks.total_tests = 10
    /\ m_checks.tests_failed = 1
    /\ 10 * m_metrics.cri >= 9 * Scale
    /\ m_decision = "ABSTAIN"

\* C5: when the scan did not fail and the ground truth is present and
\* explicitly not resolved (eval_status unresolved or error), the
\* reconciled decision is ABSTAIN; resolved_status PATCH_APPLY_FAILED (not
\* accompanied by resolved = true) gives eval_status error and ABSTAIN.
C5_NotResolvedAbstains ==
    pc_e = "written" =>
      /\ (~ScanFailed(row.patch) /\ inst.present
              /\ row.eval_status \in {"unresolved", "error"})
           => row.final_decision = "ABSTAIN"
      /\ (inst.present /\ inst.resolved_status = "PATCH_APPLY_FAILED"
              /\ inst.resolved # "True")
           => (row.eval_status = "error" /\ row.final_decision = "ABSTAIN")

C5_Witness ==
    /\ pc_e = "written"
    /\ ~ScanFailed(row.patch)
    /\ inst.resolved_status = "PATCH_APPLY_FAILED"
    /\ base_row.final_decision = "OK"
    /\ row.eval_status = "error"
    /\ row.final_decision = "ABSTAIN"

\* C6: OK and VETO are terminal in the repair loop: a step that decided OK
\* or VETO is the last one, no generation or check call follows it, and the
\* run's final decision is that step's decision.
C6_TerminalStops ==
    \A k \in 1..Len(iterations) :
        iterations[k].decision \in {"OK", "VETO"} =>
            /\ k = Len(iterations)
            /\ gen_calls = k
            /\ check_calls = k
            /\ pc \in {"after", "done"}
            /\ final_decision = iterations[k].decision

C6_Witness ==
    /\ pc = "done"
    /\ tau_max = 3
    /\ Len(iterations) = 2
    /\ iterations[1].decision = "ABSTAIN"
    /\ iterations[2].decision = "VETO"
    /\ final_decision = "VETO"
    /\ gen_calls = 2

\* C7: with plateau stopping enabled, when a step t >= 2 is not terminal
\* and |cri_t - cri_{t-1}| < 0.05, the loop stops at step t with that
\* step's ABSTAIN as the final decision and makes no further call.
C7_PlateauStops ==
    \A k \in 2..Len(iterations) :
        (/\ early_stop_plateau
         /\ iterations[k].decision \notin {"OK", "VETO"}
         /\ 20 * Abs(iterations[k].metrics.cri - iterations[k - 1].metrics.cri)
                < Scale)
        => /\ k = Len(iterations)
           /\ gen_calls = k
           /\ check_calls = k
           /\ pc \in {"after", "done"}
           /\ iterations[k].decision = "ABSTAIN"
           /\ final_decision = "ABSTAIN"

C7_Witness ==
    /\ pc = "done"
    /\ early_stop_plateau
    /\ tau_max = 3
    /\ Len(iterations) = 2
    /\ iterations[2].metrics.cri # iterations[1].metrics.cri
    /\ 20 * Abs(iterations[2].metrics.cri - iterations[1].metrics.cri) < Scale
    /\ final_decision = "ABSTAIN"
    /\ gen_calls = 2

Terminated == pc \in {"done", "caught", "uncaught"}

LoopNext ==
    \/ GenerateOk
    \/ GenerateRaises
    \/ HarnessStep
    \/ SweStep
    \/ Finish
    \/ ExperimentCatch
    \/ ExperimentCrash

\* A measure every step of a run increases and the budget bounds.
Progress ==
    gen_calls + check_calls
        + (CASE pc \in {"after", "raised"} -> 1
             [] Terminated -> 2
             [] OTHER -> 0)

\* C8: for tau_max >= 1 the loop makes at most tau_max generation steps and
\* ends (a run that has not ended can always take a step, and every step
\* increases a measure bounded by the budget); a run that returns has
\* recorded between 1 and tau_max iterations, and when step tau_max ends
\* without OK or VETO the final decision is ABSTAIN.
C8_BudgetBound ==
    /\ [](/\ gen_calls <= tau_max
          /\ check_calls <= tau_max
          /\ Len(iterations) <= tau_max
          /\ Progress <= 2 * tau_max + 2
          /\ (pc \in {"gen", "check", "after", "raised"}) => ENABLED LoopNext
          /\ (pc = "done" /\ tau_max >= 1) => Len(iterations) \in 1..tau_max
          /\ (/\ pc \in {"after", "done"}
              /\ tau_max >= 1
              /\ Len(iterations) = tau_max
              /\ iterations[tau_max].decision \notin {"OK", "VETO"})
             => final_decision = "ABSTAIN")
    /\ [][Progress' > Progress]_loopVars

C8_Witness ==
    /\ pc = "done"
    /\ tau_max >= 2
    /\ Len(iterations) = tau_max
    /\ gen_calls = tau_max
    /\ ~Plateau(iterations)
    /\ iterations[tau_max].decision = "ABSTAIN"
    /\ final_decision = "ABSTAIN"

\* C9: a failure of the generation call never escapes the loop as an
\* exception: the step is recorded as aborted with ABSTAIN and the run
\* still ends with a final decision and its trace.
C9_GenFailureAbortsStep ==
    gen_failed_at # 0 =>
        /\ pc \notin {"raised", "caught", "uncaught"}
        /\ Len(iterations) >= gen_failed_at
        /\ iterations[gen_failed_at].decision = "ABSTAIN"

\* C10: a step whose patch could not be applied has a CheckResult with zero
\* tests passed and a decision other than OK.
C10_ApplyFailureIsCheckFailure ==
    \A k \in apply_failed :
        k <= Len(iterations) =>
            /\ iterations[k].checks.total_tests
                   - iterations[k].checks.tests_failed <= 0
            /\ iterations[k].decision # "OK"

\* C11: when the test command times out or cannot be started, no exception
\* escapes the test run: the step's CheckResult has tests_failed >= 1 and
\* the error text as its tests_output, and the step's decision is not OK.
C11_TestCommandFailureIsFailedCheck ==
    /\ (pc_t = "start") => ENABLED RunTests
    /\ (/\ pc_t \in {"tested", "decided", "scan_raised"}
        /\ t_variant # "swe_sandbox"
        /\ t_proc.kind \in {"timeout", "notfound"})
       => /\ t_checks.tests_failed >= 1
          /\ t_out = <<IF t_proc.kind = "timeout" THEN TimeoutLine
                       ELSE NotFoundLine>>
          /\ (pc_t = "decided" => t_decision # "OK")

C11_Witness ==
    /\ pc_t = "decided"
    /\ t_proc.kind = "timeout"
    /\ t_checks.security_violations = {}
    /\ t_checks.linter_errors = 0
    /\ t_checks.tests_failed = 1
    /\ t_decision = "ABSTAIN"

\* C12: cri is within [0, 1] wherever it is computed: by compute_metrics on
\* every CheckResults (total_tests = 0 and many violations or linter errors
\* included), in every loop record, and in every built or reconciled row.
C12_CriInUnitInterval ==
    /\ pc_m = "evaluated" => (0 <= m_metrics.cri /\ m_metrics.cri <= Scale)
    /\ pc_t = "decided" => (0 <= t_metrics.cri /\ t_metrics.cri <= Scale)
    /\ \A r \in Records : 0 <= r.metrics.cri /\ r.metrics.cri <= Scale
    /\ pc_e \in {"built", "written"} => (0 <= base_row.cri /\ base_row.cri <= Scale)
    /\ pc_e = "written" => (0 <= row.cri /\ row.cri <= Scale)

C12_Witness ==
    /\ pc_m = "evaluated"
    /\ m_checks.total_tests = 0
    /\ Cardinality(m_checks.security_violations) >= 2
    /\ m_checks.linter_errors >= 1
    /\ m_metrics.cri = 0

\* C13: compute_metrics returns cri = clamp(passRate - 0.1*|violations|
\* - 0.02*|linter errors|, 0, 1), passRate = (total - failed)/total for
\* total > 0 and 0 otherwise, sad_flag = (|violations| > 0), tau = the given
\* step; 10 tests, none failed, one violation: cri 0.9, sad_flag, VETO.
\* (The equation is stated with both sides multiplied by 50 * total.)
C13_CriFormula ==
    pc_m = "evaluated" =>
      LET t == m_checks.total_tests
          f == m_checks.tests_failed
          v == Cardinality(m_checks.security_violations)
          l == m_checks.linter_errors
          den == IF t > 0 THEN 50 * t ELSE 50
          num == IF t > 0 THEN 50 * (t - f) - 5 * v * t - l * t
                 ELSE 0 - 5 * v - l
          clamped == IF num < 0 THEN 0 ELSE IF num > den THEN den ELSE num
      IN  /\ m_metrics.cri * den = Scale * clamped
          /\ m_metrics.sad_flag = (v > 0)
          /\ m_metrics.tau = m_tau
          /\ (t = 10 /\ f = 0 /\ v = 1 /\ l = 0)
               => (10 * m_metrics.cri = 9 * Scale /\ m_metrics.sad_flag
                     /\ m_decision = "VETO")

C13_Witness ==
    /\ pc_m = "evaluated"
    /\ m_checks.total_tests = 10
    /\ m_checks.tests_failed = 3
    /\ Cardinality(m_checks.security_violations) = 1
    /\ m_checks.linter_errors = 2
    /\ 50 * m_metrics.cri = 28 * Scale

\* C14: every CheckResult produced by the check aggregation paths (parsed
\* test output, command failure, sandbox mode without a tests path) has
\* tests_failed <= total_tests.
C14_FailedAtMostTotal ==
    /\ pc_t \in {"tested", "decided", "scan_raised"}
         => t_checks.tests_failed <= t_checks.total_tests
    /\ \A r \in Records : r.checks.tests_failed <= r.checks.total_tests

\* C15: parse_pytest_output returns (passed + failed, failed), with the
\* failed count the runner reported, for each documented shape:
\* "<p> passed", "<p> passed, <f> failed", "<f> failed, <p> passed", and
\* "FAILED (failures=<n>)" next to a separate "<p> passed".
C15_ParseShapes ==
    (pc_t \in {"tested", "decided", "scan_raised"} /\ t_variant # "swe_sandbox"
        /\ t_proc.kind = "ran")
    => \A p \in 0..MaxCount, f \in 1..MaxCount :
         /\ t_proc.stdout = <<PassedLine(p)>>
              => (t_checks.total_tests = p /\ t_checks.tests_failed = 0)
         /\ t_proc.stdout = <<PassedFailedLine(p, f)>>
              => (t_checks.total_tests = p + f /\ t_checks.tests_failed = f)
         /\ t_proc.stdout = <<FailedPassedLine(f, p)>>
              => (t_checks.total_tests = p + f /\ t_checks.tests_failed = f)
         /\ t_proc.stdout \in {<<FailuresLine(f), PassedLine(p)>>,
                                <<PassedLine(p), FailuresLine(f)>>}
              => (t_checks.total_tests = p + f /\ t_checks.tests_failed = f)

\* The scanned sections of the patch all failed to scan.
OnlyFailedScans(patch) ==
    /\ ScanFailed(patch)
    /\ \A i \in DOMAIN patch :
         (patch[i].is_py /\ patch[i].added)
             => (patch[i].syntax_error \/ patch[i].raises)

\* C16: a scan that cannot analyse the candidate (syntax error, or the
\* scanner raising) does not raise and is never reported as a violation
\* tag: no scan-failure tag is among the violations, and a candidate
\* whose scans all failed has an empty violation set and sad_flag false.
C16_ScanFailureIsNotViolation ==
    /\ \A r \in Records :
         r.checks.security_violations \cap {SyntaxErrorTag, ScanErrorTag} = {}
    /\ pc \in {"raised", "caught", "uncaught"} => gen_failed_at # 0
    /\ pc_e \in {"built", "written"} =>
         /\ base_row.security_violations \cap {SyntaxErrorTag, ScanErrorTag} = {}
         /\ OnlyFailedScans(base_row.patch)
              => (base_row.security_violations = {} /\ ~base_row.sad_flag)

\* The CheckResults the oracle outcome stands for, with the local
\* violations carried through.
Substituted(r, b) ==
    [total_tests |-> 1,
     tests_failed |-> IF r.resolved = "True" THEN 0 ELSE 1,
     security_violations |-> b.security_violations,
     linter_errors |-> 0]

\* C17 as stated: when an oracle evaluation is folded in, the reconciled
\* cri and decision are those compute_metrics and decide return for the
\* substituted check result with the local violations carried through.
C17_ReconciledIsRecomputed ==
    (pc_e = "written" /\ inst.present /\ row.eval_status # "None")
    => LET sub == Substituted(row, base_row)
           m == compute_metrics(sub, row.tau)
       IN  /\ row.total_tests = sub.total_tests
           /\ row.tests_failed = sub.tests_failed
           /\ row.cri = m.cri
           /\ row.final_decision = decide(m, sub, cri_ok_threshold)

\* C17 amended: the reconciled test counts are the substituted ones
\* (1 test, 0 failed if resolved, 1 failed if not); the reconciled cri is
\* the substituted pass rate alone (1.0 resolved, 0.0 not) with no security
\* penalty; the decision is VETO for resolved with local sad_flag, OK for
\* resolved without, ABSTAIN for not resolved.  Cri and decision equal
\* compute_metrics and decide on the substituted result whenever the local
\* violation set is empty.
C17_ReconciledFromOracle ==
    (pc_e = "written" /\ inst.present /\ row.eval_status # "None")
    => LET sub == Substituted(row, base_row)
           m == compute_metrics(sub, row.tau)
           res == row.resolved = "True"
       IN  /\ row.total_tests = 1
           /\ row.tests_failed = sub.tests_failed
           /\ row.tests_passed = 1 - sub.tests_failed
           /\ row.cri = (IF res THEN Scale ELSE 0)
           /\ row.test_pass_rate = row.cri
           /\ row.final_decision =
                (IF res THEN (IF base_row.sad_flag THEN "VETO" ELSE "OK")
                 ELSE "ABSTAIN")
           /\ base_row.security_violations = {}
                => /\ row.cri = m.cri
                   /\ row.final_decision = decide(m, sub, cri_ok_threshold)

C17_Witness ==
    /\ pc_e = "written"
    /\ inst.present
    /\ row.eval_status = "unresolved"
    /\ base_row.cri = Scale
    /\ base_row.final_decision = "OK"
    /\ row.cri = 0
    /\ row.final_decision = "ABSTAIN"

\* C18: reconciliation never changes the local security signals: for every
\* base row and every oracle record, sad_flag, security_violations, patch
\* and tau of the row are what they were before apply_instance_eval.
C18_SecuritySignalsKept ==
    pc_e = "written" =>
        /\ row.sad_flag = base_row.sad_flag
        /\ row.security_violations = base_row.security_violations
        /\ row.patch = base_row.patch
        /\ row.tau = base_row.tau
        /\ row.iterations = base_row.iterations

C18_Witness ==
    /\ pc_e = "written"
    /\ inst.present
    /\ row.eval_status = "resolved"
    /\ base_row.cri # row.cri
    /\ row.sad_flag
    /\ Cardinality(row.security_violations) = 2

\* C19: if no oracle record exists for the instance, the reconciled row
\* is the local row, field for field, with resolved and eval_status null.
C19_NoOracleUnchanged ==
    (pc_e = "written" /\ ~inst.present) =>
        /\ row = base_row
        /\ row.resolved = "None"
        /\ row.resolved_status = "None"
        /\ row.eval_status = "None"

C19_Witness ==
    /\ pc_e = "written"
    /\ ~inst.present
    /\ row.total_tests = 1
    /\ row.cri = Scale
    /\ row.final_decision = "OK"

C21_SlidingWindow ==
    pc_r = "idle" =>
      /\ rl_last.user # "none" =>
           LET all == rl_allowed[rl_last.user]
               prior == IF rl_last.result THEN SubSeq(all, 1, Len(all) - 1)
                        ELSE all
               inWindow == {i \in 1..Len(prior) :
                               prior[i] > rl_last.ts - 10 /\ prior[i] <= rl_last.ts}
           IN  rl_last.result = (Cardinality(inWindow) < 3)
      /\ \A u \in Users, x \in 0..MaxTime :
           Cardinality({i \in 1..Len(rl_allowed[u]) :
                           rl_allowed[u][i] > x - 10 /\ rl_allowed[u][i] <= x}) <= 3

C21_Witness ==
    /\ pc_r = "idle"
    /\ rl_allowed["u1"] = <<0, 5, 9, 11>>
    /\ rl_last = [user |-> "u1", ts |-> 11, result |-> TRUE]

\* C22: transfer_funds raises for every transfer whose amount is not
\* positive, whose caller does not own the source account, whose source or
\* target account does not exist or coincide, or whose amount exceeds the
\* source balance; after a rejected transfer every balance is what it was.
C22_RejectsInvalid ==
    (pc_f = "idle" /\ f_last.call.outcome # "none") =>
      LET c == f_last.call
          before == f_last.before
          invalid == \/ c.amount <= 0
                     \/ c.source \notin Accounts
                     \/ c.target \notin Accounts
                     \/ c.source = c.target
                     \/ (c.source \in Accounts /\ owners[c.source] # c.user)
                     \/ (c.source \in Accounts /\ c.amount > before[c.source])
      IN  /\ invalid => c.outcome \in {"ValueError", "PermissionError"}
          /\ c.outcome # "ok" => balances = before

C22_Witness ==
    /\ pc_f = "idle"
    /\ f_last.call.outcome = "PermissionError"
    /\ f_last.call.amount = 1
    /\ f_last.call.target \in Accounts
    /\ f_last.before[f_last.call.source] >= 1
    /\ balances = f_last.before


\* step k of the recorded run meets a stop condition: a terminal decision,
\* or a cri within 0.05 of the previous step's
StopAt(its, k) ==
    \/ its[k].decision \in {"OK", "VETO"}
    \/ (k >= 2 /\ 20 * Abs(its[k].metrics.cri - its[k - 1].metrics.cri) < Scale)

\* C23: run_swe_wrapped mirrors run_wrapped with early_stop_plateau: the
\* number of iterations and the final decision are one and the same
\* function of tau_max and the per-step (cri, decision) results in both:
\* the run ends at the first step that meets a stop condition, or at
\* tau_max, with that step's decision (ABSTAIN for no step).
C23_SweMirrorsHarness ==
    (pc = "done" /\ early_stop_plateau) =>
      LET n == Len(iterations)
      IN  /\ n <= tau_max
          /\ \A k \in 1..(n - 1) : ~StopAt(iterations, k)
          /\ n < tau_max => (n >= 1 /\ StopAt(iterations, n))
          /\ final_decision = IF n = 0 THEN "ABSTAIN" ELSE iterations[n].decision

C23_Witness ==
    /\ pc = "done"
    /\ variant = "swe"
    /\ tau_max = 3
    /\ Len(iterations) = 3
    /\ iterations[3].decision = "OK"
    /\ final_decision = "OK"

\* C24: the loop is sequential with feedback: the prompt of step 1 is built
\* from the task alone, the prompt of every step t > 1 is built from the
\* CheckResults recorded for step t-1, and that record is complete before
\* the generation call of step t starts.
C24_PromptFromPreviousChecks ==
    /\ pc # "off" => Len(prompts) = gen_calls
    /\ \A k \in 1..Len(prompts) :
         IF k = 1
         THEN prompts[k] = [is_repair |-> FALSE, checks |-> NoPromptChecks]
         ELSE /\ prompts[k].is_repair
              /\ Len(iterations) >= k - 1
              /\ prompts[k].checks = iterations[k - 1].checks
    /\ pc = "gen" => (check_calls = gen_calls /\ Len(iterations) = gen_calls)
    /\ pc = "check" => (check_calls = gen_calls - 1
                          /\ Len(iterations) = gen_calls - 1)

C24_Witness ==
    /\ pc = "done"
    /\ Len(prompts) = 3
    /\ iterations[2].checks # iterations[1].checks
    /\ prompts[3].checks = iterations[2].checks
    /\ prompts[2].checks = iterations[1].checks

\* C25: with tau_max < 1 the loop body never runs: the run returns an
\* empty iteration list, final decision ABSTAIN and no final_code_path,
\* without any generation or check call.
C25_ZeroIterations ==
    (pc # "off" /\ tau_max < 1) =>
        /\ pc \in {"after", "done"}
        /\ iterations = <<>>
        /\ final_decision = "ABSTAIN"
        /\ final_code_path = "None"
        /\ gen_calls = 0
        /\ check_calls = 0
        /\ prompts = <<>>

C25_Witness ==
    /\ pc = "done"
    /\ variant = "swe"
    /\ tau_max = 0
    /\ iterations = <<>>
    /\ final_decision = "ABSTAIN"

\* C26: for every wrapped run that recorded at least one iteration, on
\* every exit path, final_decision is the decision of the last record and
\* final_code_path is not null; record k has tau_step = metrics.tau = k.
C26_FinalIsLastRecord ==
    /\ (pc = "done" /\ iterations # <<>>) =>
         /\ final_decision = iterations[Len(iterations)].decision
         /\ final_code_path # "None"
         /\ final_code_path = iterations[Len(iterations)].code_path
    /\ \A k \in 1..Len(iterations) :
         iterations[k].tau_step = k /\ iterations[k].metrics.tau = k

C26_Witness ==
    /\ pc = "done"
    /\ variant = "harness"
    /\ ~early_stop_plateau
    /\ tau_max = 2
    /\ Len(iterations) = 2
    /\ iterations[2].metrics.cri = iterations[1].metrics.cri
    /\ final_decision = "ABSTAIN"
    /\ final_code_path = "solution_path"

\* C27: OK is never issued without positive test evidence: every iteration
\* record, every evaluated CheckResults and every built or reconciled row
\* whose decision is OK has tests_failed = 0 and total_tests >= 1.
C27_OkNeedsTests ==
    /\ \A r \in Records :
         r.decision = "OK"
             => (r.checks.tests_failed = 0 /\ r.checks.total_tests >= 1)
    /\ (pc_m = "evaluated" /\ m_decision = "OK")
         => (m_checks.tests_failed = 0 /\ m_checks.total_tests >= 1)
    /\ (pc_t = "decided" /\ t_decision = "OK")
         => (t_checks.tests_failed = 0 /\ t_checks.total_tests >= 1)
    /\ (pc_e \in {"built", "written"} /\ base_row.final_decision = "OK")
         => (base_row.tests_failed = 0 /\ base_row.total_tests >= 1)
    /\ (pc_e = "written" /\ row.final_decision = "OK")
         => (row.tests_failed = 0 /\ row.total_tests >= 1)

C27_Witness ==
    /\ pc_e = "written"
    /\ base_row.total_tests = 0
    /\ base_row.final_decision = "ABSTAIN"
    /\ row.total_tests = 1
    /\ row.tests_failed = 0
    /\ row.final_decision = "OK"

\* C28: VETO is reserved for security findings: in every record of the
\* loop, every evaluated CheckResults and every built or reconciled row, a
\* decision of VETO implies sad_flag; an agent's runtime error, timeout or
\* environment error alone never gives VETO.
C28_VetoOnlyForSecurity ==
    /\ \A r \in Records : r.decision = "VETO" => r.metrics.sad_flag
    /\ (pc_m = "evaluated" /\ m_decision = "VETO") => m_metrics.sad_flag
    /\ (pc_e \in {"built", "written"} /\ base_row.final_decision = "VETO")
         => base_row.sad_flag
    /\ (pc_e = "written" /\ row.final_decision = "VETO") => row.sad_flag

\* C29: whenever the oracle record of the instance carries resolved =
\* false, whatever resolved_status comes with it, the reconciled final
\* decision is not OK.
C29_NotResolvedNeverOk ==
    (pc_e = "written" /\ inst.present /\ inst.resolved = "False")
        => row.final_decision # "OK"

\* C30: after any sequence of transfer_funds calls, accepted or rejected,
\* the sum of all balances is the initial sum and no balance is negative.
C30_SumConserved ==
    pc_f = "idle" =>
      /\ SumOver(balances, Accounts) = f_sum0
      /\ \A a \in Accounts : balances[a] >= 0

C30_Witness ==
    /\ pc_f = "idle"
    /\ f_last.call.outcome = "ok"
    /\ f_last.call.amount = 2
    /\ balances[f_last.call.source] = 0
    /\ balances # f_last.before

====
